---------------------------- MODULE Spec2Model ----------------------------
(***************************************************************************)
(* The role-based authorization and account-lifecycle slice of the         *)
(* plantNet server (src/index.js): the token check, the admin and seller   *)
(* gates, and the handlers that read or write the users collection.        *)
(*                                                                         *)
(* A request is a small process: it arrives, passes the middleware chain   *)
(* of its route one middleware at a time, and runs its handler.  Every     *)
(* await of a collection operation is a point where other requests run,    *)
(* so every action of the model holds exactly one collection operation     *)
(* (findOne, find, updateOne, insertOne), which the document store applies *)
(* atomically to a single document.  The requests the server is working on *)
(* form a bag: they have no order, and two of them may be equal.           *)
(***************************************************************************)
EXTENDS Integers, Sequences, FiniteSets, Bags, TLC

(* ------------------------------ bounds -------------------------------- *)
MaxReq == 2
MaxUsers == 2
MaxTime == 1

(* The clock counts periods of 365 days: expiresIn: "365d" is one period. *)
ExpiresIn == 1

Emails == {"a@x.com", "b@x.com"}

(* role values: the three of the application and one string the           *)
(* application does not know.                                              *)
Roles == {"customer", "seller", "admin"}
BodyRoles == Roles \cup {"superuser"}

(* req.user before verifyToken has set it.                                 *)
NoUser == "-"

VARIABLES users, orders, reqs, now

vars == <<users, orders, reqs, now>>

(* --------------------------- token service ---------------------------- *)
NoCookie == [email |-> "-", exp |-> 0, sig |-> "none"]

Sign(email, t) == [email |-> email, exp |-> t + ExpiresIn, sig |-> "ok"]

Forged(email, t) == [email |-> email, exp |-> t + ExpiresIn, sig |-> "bad"]

VerifyJwt_NoExpiry(token, t) == token.sig = "ok"

VerifyJwt(token, t) == token.sig = "ok" /\ t < token.exp

(* ------------------------ collection operations ----------------------- *)
(* A users document has the fields email, role, status, created_at and     *)
(* last_loggedIn; status "none" stands for a document without the field.   *)
(* Documents are never removed, so the place of a document in the          *)
(* collection serves as its _id.                                           *)
Matches(coll, email) == {i \in 1..Len(coll) : coll[i].email = email}

Min(S) == CHOOSE x \in S : \A y \in S : x <= y

(* findOne({email}): the first matching document in natural order, 0 when *)
(* there is none.                                                          *)
FindOne(coll, email) ==
  IF Matches(coll, email) = {} THEN 0 ELSE Min(Matches(coll, email))

RoleOf(coll, email) ==
  IF FindOne(coll, email) = 0 THEN "norecord" ELSE coll[FindOne(coll, email)].role

(* find({email: {$ne: email}}).toArray(): the documents are named by their *)
(* _id, which is their place in the collection.                            *)
FindNe(coll, email) ==
  LET Other(i) == coll[i].email # email
  IN  SelectSeq([i \in 1..Len(coll) |-> i], Other)

(* find({'seller.email': email}).toArray() *)
FindSeller(coll, email) ==
  LET Sold(i) == coll[i].seller = email
  IN  SelectSeq([i \in 1..Len(coll) |-> i], Sold)

(* $set: the fields of set replace those of the document.                  *)
ApplySet(doc, set) ==
  [f \in DOMAIN doc |-> IF f \in DOMAIN set THEN set[f] ELSE doc[f]]

(* updateOne({email}, {$set: set}): the first matching document takes the  *)
(* fields of set; nothing happens when there is none.                      *)
UpdateOne(coll, email, set) ==
  IF FindOne(coll, email) = 0 THEN coll
  ELSE [coll EXCEPT ![FindOne(coll, email)] = ApplySet(@, set)]

Matched(coll, email) ==
  IF FindOne(coll, email) = 0 THEN "matched0" ELSE "matched1"

InsertOne(coll, doc) == Append(coll, doc)

(* ------------------------------ requests ------------------------------ *)
(* A request: the route, what the client sent (cookie, the email of the    *)
(* path or body, the role and status fields of the body), the time the     *)
(* handler of POST /user took at its start (t0), where the request stands  *)
(* in its chain (pc), req.user (user), the role the gate's findOne         *)
(* returned (seen), userAlreadyExist (found), and the response.            *)
Blank ==
  [route |-> "none", cookie |-> NoCookie, param |-> "-", brole |-> "-",
   bstatus |-> "-", t0 |-> 0, pc |-> "new", user |-> NoUser, seen |-> "-",
   found |-> FALSE, code |-> 0, out |-> "-", body |-> <<>>]

(* What a client may send at time t: no cookie, a token for the            *)
(* administrator's email that the server did not sign, or a token POST     *)
(* /jwt issued for some email at some time up to t.                        *)
Cookies(t) ==
  {NoCookie} \cup {Forged("a@x.com", MaxTime)}
             \cup {Sign(e, i) : e \in Emails, i \in 0..t}

AdminRoutes == {"allUsers", "roleUpdate"}
SellerRoutes == {"ordersSeller"}
TokenRoutes == AdminRoutes \cup SellerRoutes \cup {"becameSeller"}

(* The middleware the route lists after verifyToken.                       *)
AfterVerify(route) ==
  IF route \in AdminRoutes THEN "admin"
  ELSE IF route \in SellerRoutes THEN "seller"
  ELSE "handler"

(* res.send: what is left is the route and the response; the request       *)
(* object and the locals of the chain are gone.                            *)
Send(req, code, out, body) ==
  [Blank EXCEPT !.route = req.route, !.pc = "done",
                !.code = code, !.out = out, !.body = body]

Requests == BagToSet(reqs)

(* Request q arrives; request q goes on as q2; the client has q's answer.  *)
Arrives(q) == reqs' = reqs (+) SetToBag({q})

Becomes(q, q2) == reqs' = (reqs (-) SetToBag({q})) (+) SetToBag({q2})

Leaves(q) == reqs' = reqs (-) SetToBag({q})

(* The POST /user requests under way that will insert a document.         *)
PendingInserts ==
  LET S == {q \in Requests :
              /\ q.route = "user"
              /\ \/ q.pc = "find" /\ FindOne(users, q.param) = 0
                 \/ q.pc = "write" /\ ~q.found}
  IN  BagCardinality([q \in S |-> reqs[q]])

(* A fresh deployment, or one whose first administrator has been entered   *)
(* into the collection by hand (no route creates an admin without one).    *)
Init ==
  /\ users \in { << >>,
                 << [email |-> "a@x.com", role |-> "admin", status |-> "none",
                     created_at |-> 0, last_loggedIn |-> 0] >> }
  /\ orders = << [customer |-> "a@x.com", seller |-> "b@x.com"] >>
  /\ reqs = EmptyBag
  /\ now = 0

(* ------------------------------ middleware ---------------------------- *)
TokenAccepted(cookie, t) == cookie # NoCookie /\ VerifyJwt(cookie, t)

(* verifyToken runs as the request arrives, up to the first await of the   *)
(* next middleware or of the handler.  A refused cookie stays beside the   *)
(* 401 that answers it.                                                    *)
VerifyToken(req, t) ==
  IF TokenAccepted(req.cookie, t)
  THEN [req EXCEPT !.user = req.cookie.email, !.pc = AfterVerify(req.route)]
  ELSE [Send(req, 401, "unauthorized access", <<>>) EXCEPT !.cookie = req.cookie]

AdminAllows_Any(role) == role # "norecord"

AdminAllows(role) == role # "norecord" /\ role = "admin"

SellerAllows_Any(role) == role # "norecord"

SellerAllows(role) == role # "norecord" /\ role = "seller"

VerifyAdmin(q) ==
  /\ q.pc = "admin"
  /\ LET role == RoleOf(users, q.user) IN
     Becomes(q, IF AdminAllows(role)
                THEN [q EXCEPT !.seen = role, !.pc = "handler"]
                ELSE Send(q, 403, "Admin only actions", <<>>))
  /\ UNCHANGED <<users, orders, now>>

VerifySeller(q) ==
  /\ q.pc = "seller"
  /\ LET role == RoleOf(users, q.user) IN
     Becomes(q, IF SellerAllows(role)
                THEN [q EXCEPT !.seen = role, !.pc = "handler"]
                ELSE Send(q, 403, "Seller only actions", <<>>))
  /\ UNCHANGED <<users, orders, now>>

(* ------------------------------ POST /user ---------------------------- *)
(* userData, the document insertOne stores: the body as the handler left   *)
(* it at its start, with role, created_at and last_loggedIn overwritten    *)
(* and every other field of the body (status among them) kept.             *)
UserData(req) ==
  [email |-> req.param, role |-> req.brole, status |-> req.bstatus,
   created_at |-> req.t0, last_loggedIn |-> req.t0]

LoginSet_WholeBody(t) == [last_loggedIn |-> t, role |-> "customer"]

LoginSet(t) == [last_loggedIn |-> t]

(* The handler's start: whatever role the body holds, userData.role is     *)
(* "customer" and the two timestamps are the current time.                 *)
PostUserArrive ==
  /\ BagCardinality(reqs) < MaxReq
  /\ \E email \in Emails, brole \in BodyRoles, bstatus \in {"none", "verified"} :
       /\ FindOne(users, email) # 0 \/ Len(users) + PendingInserts < MaxUsers
       /\ Arrives([Blank EXCEPT !.route = "user", !.param = email, !.brole = "customer",
                             !.bstatus = bstatus, !.t0 = now, !.pc = "find"])
  /\ UNCHANGED <<users, orders, now>>

PostUserFind(q) ==
  /\ q.route = "user" /\ q.pc = "find"
  /\ Becomes(q, [q EXCEPT !.found = (FindOne(users, q.param) # 0), !.pc = "write"])
  /\ UNCHANGED <<users, orders, now>>

PostUserWrite(q) ==
  /\ q.route = "user" /\ q.pc = "write"
  /\ IF q.found
     THEN /\ users' = UpdateOne(users, q.param, LoginSet(now))
          /\ Becomes(q, Send(q, 200, Matched(users, q.param), <<>>))
     ELSE /\ users' = InsertOne(users, UserData(q))
          /\ Becomes(q, Send(q, 200, "inserted", <<>>))
  /\ UNCHANGED <<orders, now>>

(* --------------------------- routes with a token ---------------------- *)
TokenArrive ==
  /\ BagCardinality(reqs) < MaxReq
  /\ \E route \in TokenRoutes, cookie \in Cookies(now) :
       \E email \in (IF route = "allUsers" THEN {"-"} ELSE Emails),
          brole \in (IF route = "roleUpdate" THEN BodyRoles ELSE {"-"}) :
            Arrives(VerifyToken([Blank EXCEPT !.route = route, !.cookie = cookie,
                                              !.param = email, !.brole = brole], now))
  /\ UNCHANGED <<users, orders, now>>

GetAllUsers(q) ==
  /\ q.route = "allUsers" /\ q.pc = "handler"
  /\ Becomes(q, Send(q, 200, "list", FindNe(users, q.user)))
  /\ UNCHANGED <<users, orders, now>>

RoleUpdateSet_RoleOnly(role) == [role |-> role]

RoleUpdateSet(role) == [role |-> role, status |-> "verified"]

RoleUpdate(coll, email, role) == UpdateOne(coll, email, RoleUpdateSet(role))

PatchRoleUpdate(q) ==
  /\ q.route = "roleUpdate" /\ q.pc = "handler"
  /\ users' = RoleUpdate(users, q.param, q.brole)
  /\ Becomes(q, Send(q, 200, Matched(users, q.param), <<>>))
  /\ UNCHANGED <<orders, now>>

BecameSellerSet_Verified == [status |-> "verified"]

BecameSellerSet == [status |-> "requested"]

PatchBecameSeller(q) ==
  /\ q.route = "becameSeller" /\ q.pc = "handler"
  /\ users' = UpdateOne(users, q.param, BecameSellerSet)
  /\ Becomes(q, Send(q, 200, Matched(users, q.param), <<>>))
  /\ UNCHANGED <<orders, now>>

GetOrdersSeller(q) ==
  /\ q.route = "ordersSeller" /\ q.pc = "handler"
  /\ Becomes(q, Send(q, 200, "list", FindSeller(orders, q.param)))
  /\ UNCHANGED <<users, orders, now>>

(* The response has been sent: the request is over.                        *)
Close(q) ==
  /\ q.pc = "done"
  /\ Leaves(q)
  /\ UNCHANGED <<users, orders, now>>

Tick ==
  /\ now < MaxTime
  /\ now' = now + 1
  /\ UNCHANGED <<users, orders, reqs>>

Next ==
  \/ PostUserArrive
  \/ \E q \in Requests : PostUserFind(q)
  \/ \E q \in Requests : PostUserWrite(q)
  \/ TokenArrive
  \/ \E q \in Requests : VerifyAdmin(q)
  \/ \E q \in Requests : VerifySeller(q)
  \/ \E q \in Requests : GetAllUsers(q)
  \/ \E q \in Requests : PatchRoleUpdate(q)
  \/ \E q \in Requests : PatchBecameSeller(q)
  \/ \E q \in Requests : GetOrdersSeller(q)
  \/ \E q \in Requests : Close(q)
  \/ Tick

Spec == Init /\ [][Next]_vars

(* ======================= properties of the slice ====================== *)
Required(route) == IF route \in AdminRoutes THEN "admin" ELSE "seller"

Gated == AdminRoutes \cup SellerRoutes

Docs == 1..Len(users)

(* C1: requestSellerPromotion succeeds only for the caller's own email: a  *)
(* verified caller A whose path email is B # A is refused with 403 and no  *)
(* record changes.                                                         *)
C1_CrossAccountRefused ==
  [][\A q \in Requests, q2 \in BagToSet(reqs') :
       (q.route = "becameSeller" /\ q.pc = "handler" /\ q.user # q.param
          /\ q2 # q /\ Becomes(q, q2))
       => (q2.code = 403 /\ users' = users)]_vars

(* C2: the users collection never holds two records with the same email.   *)
C2_OneRecordPerEmail ==
  \A i, j \in Docs : users[i].email = users[j].email => i = j

(* C3: the role of an existing record changes only in the handler step of  *)
(* an approveRole request that passed verifyToken and that verifyAdmin     *)
(* admitted; verifyAdmin admits a request only in a step in which the      *)
(* stored role of its caller is admin; a record is created with role       *)
(* customer, and no record is removed.                                     *)
C3_RoleChangesOnlyByAdmin ==
  [][/\ Len(users') >= Len(users)
     /\ \A i \in Docs :
          users'[i].role # users[i].role =>
            \E q \in Requests, q2 \in BagToSet(reqs') :
              /\ q.route = "roleUpdate" /\ q.pc = "handler" /\ Becomes(q, q2)
              /\ q2.pc = "done"
              /\ FindOne(users, q.param) = i
              /\ users'[i].role = q.brole
              /\ q.user \in Emails /\ q.seen = "admin"
     /\ \A q \in Requests, q2 \in BagToSet(reqs') :
          (q.route = "roleUpdate" /\ q.pc = "admin" /\ q2.pc = "handler" /\ Becomes(q, q2))
          => (q.user \in Emails /\ RoleOf(users, q.user) = "admin" /\ q2.seen = "admin")
     /\ \A i \in (Len(users) + 1)..Len(users') : users'[i].role = "customer"
    ]_vars

C3_Witness ==
  \E i \in Docs : users[i].email = "b@x.com" /\ users[i].role = "seller"

(* C4 as stated: status only moves none -> requested -> verified.          *)
C4_StatusForwardOnly ==
  [][\A i \in Docs :
       users'[i].status # users[i].status =>
         \/ users[i].status = "none" /\ users'[i].status = "requested"
         \/ users[i].status = "requested" /\ users'[i].status = "verified"]_vars

(* C4 amended: the status of an existing record changes only to requested, *)
(* in the handler step of a requestSellerPromotion for its email, and only *)
(* to verified, in the handler step of an approveRole for its email,       *)
(* whatever the status was before.                                         *)
C4_StatusChangesByOperation ==
  [][\A i \in Docs :
       users'[i].status # users[i].status =>
         \E q \in Requests, q2 \in BagToSet(reqs') :
           /\ q.pc = "handler" /\ Becomes(q, q2) /\ q2.pc = "done"
           /\ FindOne(users, q.param) = i
           /\ \/ q.route = "becameSeller" /\ users'[i].status = "requested"
              \/ q.route = "roleUpdate" /\ users'[i].status = "verified"]_vars

C4_Witness ==
  \E i \in Docs : users[i].role = "seller" /\ users[i].status = "requested"

(* C5: an upsertOnLogin for an email that has a record (its findOne found  *)
(* one) changes nothing but last_loggedIn of that record, which becomes    *)
(* the current time, and creates no record.                                *)
C5_LoginTouchesOnlyLastLoggedIn ==
  [][\A q \in Requests, q2 \in BagToSet(reqs') :
       (q.route = "user" /\ q2 # q /\ Becomes(q, q2)) =>
         /\ q.pc = "find" =>
              /\ users' = users
              /\ q2.found = (\E i \in Docs : users[i].email = q.param)
         /\ (q.pc = "write" /\ q.found) =>
              \E i \in Docs :
                /\ users[i].email = q.param
                /\ \A j \in 1..(i - 1) : users[j].email # q.param
                /\ Len(users') = Len(users)
                /\ users'[i].last_loggedIn = now
                /\ users'[i].email = users[i].email
                /\ users'[i].role = users[i].role
                /\ users'[i].status = users[i].status
                /\ users'[i].created_at = users[i].created_at
                /\ \A j \in Docs : j # i => users'[j] = users[j]]_vars

C5_Witness ==
  /\ \E q \in Requests : q.route = "user" /\ q.pc = "done" /\ q.out = "matched1"
  /\ \E i \in Docs : /\ users[i].role = "seller" /\ users[i].status = "verified"
                     /\ users[i].last_loggedIn > users[i].created_at

(* C6: the record upsertOnLogin creates has role customer and status none, *)
(* and both timestamps are the time of the call, whatever the body holds.  *)
C6_CreatedAsCustomerNone ==
  [][\A q \in Requests, q2 \in BagToSet(reqs') :
       (q.route = "user" /\ q.pc = "write" /\ ~q.found /\ q2 # q /\ Becomes(q, q2)) =>
         /\ Len(users') = Len(users) + 1
         /\ users'[Len(users')].email = q.param
         /\ users'[Len(users')].role = "customer"
         /\ users'[Len(users')].status = "none"
         /\ users'[Len(users')].created_at = q.t0
         /\ users'[Len(users')].last_loggedIn = q.t0]_vars

(* C7: /all-users answers 401 exactly when the cookie is absent, forged or *)
(* expired; otherwise the admin gate answers 403 when the caller has no    *)
(* record or a stored role other than admin, and lets the handler run      *)
(* only when the stored role is admin; the handler answers with all        *)
(* records but those with the caller's email, and writes nothing.          *)
C7_AllUsersGate ==
  [][/\ \A q2 \in BagToSet(reqs') :
          (q2.route = "allUsers" /\ Arrives(q2)) =>
            IF q2.cookie.sig = "ok" /\ now < q2.cookie.exp
            THEN q2.pc = "admin" /\ q2.user = q2.cookie.email
            ELSE q2.pc = "done" /\ q2.code = 401
     /\ \A q \in Requests, q2 \in BagToSet(reqs') :
          (q.route = "allUsers" /\ q2 # q /\ q.pc # "done" /\ Becomes(q, q2)) =>
            /\ users' = users
            /\ q.pc \in {"admin", "handler"}
            /\ q.pc = "admin" =>
                 IF \E i \in Docs : users[i].email = q.user /\ users[i].role = "admin"
                 THEN q2.pc = "handler"
                 ELSE q2.pc = "done" /\ q2.code = 403
            /\ q.pc = "handler" =>
                 /\ q.seen = "admin"
                 /\ q2.pc = "done" /\ q2.code = 200
                 /\ Len(q2.body) = Cardinality({i \in Docs : users[i].email # q.user})
                 /\ \A k \in 1..Len(q2.body) :
                      /\ q2.body[k] \in Docs
                      /\ users[q2.body[k]].email # q.user
                      /\ \A l \in 1..(k - 1) : q2.body[l] < q2.body[k]
    ]_vars

C7_Witness ==
  \E q \in Requests :
    q.route = "allUsers" /\ q.pc = "done" /\ q.code = 200 /\ Len(q.body) > 0

(* C8: an approveRole on an existing record writes role and status in one  *)
(* step and nothing else; no step writes one of the two without the other; *)
(* and applying the same (email, role) again to the result changes nothing.*)
C8_ApproveAtomicIdempotent ==
  [][/\ \A q \in Requests, q2 \in BagToSet(reqs') :
          (q.route = "roleUpdate" /\ q.pc = "handler" /\ q2 # q /\ Becomes(q, q2)) =>
            /\ Len(users') = Len(users)
            /\ \A i \in Docs :
                 IF users[i].email = q.param /\ \A j \in 1..(i - 1) : users[j].email # q.param
                 THEN /\ users'[i].role = q.brole
                      /\ users'[i].status = "verified"
                      /\ users'[i].email = users[i].email
                      /\ users'[i].created_at = users[i].created_at
                      /\ users'[i].last_loggedIn = users[i].last_loggedIn
                 ELSE users'[i] = users[i]
            /\ RoleUpdate(users', q.param, q.brole) = users'
     /\ \A i \in Docs :
          users'[i].role # users[i].role => users'[i].status = "verified"
    ]_vars

C8_Witness ==
  /\ \E q \in Requests : q.route = "roleUpdate" /\ q.pc = "done" /\ q.out = "matched1"
  /\ \E i \in Docs : users[i].role = "admin" /\ users[i].status = "verified"
                     /\ users[i].email = "b@x.com"

(* C9: every stored role is customer, seller or admin.                     *)
C9_RoleInEnum ==
  \A i \in Docs : users[i].role \in Roles

(* C10 as stated: no gated handler runs for a caller whose stored role at  *)
(* that moment is not the required one.                                    *)
C10_HandlerRoleCurrent ==
  [][\A q \in Requests, q2 \in BagToSet(reqs') :
       (q.route \in Gated /\ q.pc = "handler" /\ q2 # q /\ Becomes(q, q2))
       => RoleOf(users, q.user) = Required(q.route)]_vars

(* C10 amended: every gated request looks the caller's role up anew, and   *)
(* is admitted or refused by the role stored at the moment of that lookup; *)
(* a gated handler runs only for a request whose own lookup returned the   *)
(* required role.                                                          *)
C10_GateDecidesByStoredRole ==
  [][\A q \in Requests, q2 \in BagToSet(reqs') :
       (q.route \in Gated /\ q.pc # "done" /\ q2 # q /\ Becomes(q, q2)) =>
         /\ q.pc \in {"admin", "seller"} =>
              IF RoleOf(users, q.user) = Required(q.route)
              THEN q2.pc = "handler" /\ q2.seen = Required(q.route)
              ELSE q2.pc = "done" /\ q2.code = 403
         /\ q.pc = "handler" => q.seen = Required(q.route)
         /\ q.pc \in {"admin", "seller", "handler"}]_vars

C10_Witness ==
  \E q \in Requests :
    /\ q.route \in Gated /\ q.pc = "handler"
    /\ RoleOf(users, q.user) # Required(q.route)
=============================================================================
